---- MODULE Spec2Model ----
(***************************************************************************)
(* The orchestration pipeline of AiGENt: the browser-side OrchestratorAgent *)
(* (processUserRequest), the server's GET /api/orchestrator/status and     *)
(* POST /api/orchestrator handlers, executeAgentOrchestration/executeAgent *)
(* and the GeminiService completion client with its rate gate.             *)
(*                                                                         *)
(* Each run r is one user submission: one call of processUserRequest and,  *)
(* when the probe answers available, one POST, which constructs its own    *)
(* GeminiService and drives the ten stages.  JavaScript is single-threaded *)
(* and cooperative, so an action is the code between two suspension points *)
(* (an awaited fetch, an awaited setTimeout, the awaited backend call).    *)
(*                                                                         *)
(* Time is kept as differences, the only way the code reads it:            *)
(* sinceLastRequest[r] is Date.now() - this.lastRequestTime of r's service,*)
(* saturating at RATE_LIMIT_DELAY (the code only compares it with that),   *)
(* and timer[r] is the time left of the setTimeout or backend call r is    *)
(* suspended on.  Texts are short strings standing for the literals of the *)
(* source; a prompt is its template's role with the embedded input.        *)
(***************************************************************************)
EXTENDS Integers, Sequences, FiniteSets, TLC

\* ------------------------------------------------------------ bounds
\* The submissions that may be in flight at once.
Runs == {"run1", "run2"}
\* How often the backend may change its behaviour in one behaviour of the model.
MaxBackendChanges == 1
\* Saturation of the per-invocation count of outbound requests.
MaxAttempts == 3
\* Saturation of the per-service count of outbound requests.
MaxCalls == 3
\* The two durations a backend call may take (ms): under and over the gate's delay.
QuickLatency == 1000
SlowLatency == 5000
Latencies == {QuickLatency, SlowLatency}

\* ------------------------------------------------------------ program constants
RATE_LIMIT_DELAY == 4000
RETRY_COOLDOWN == 60000
\* process.env.NEXT_PUBLIC_GEMINI_API_KEY is a browser-side setting; the server
\* environment of the model carries only GEMINI_API_KEY.
NEXT_PUBLIC_GEMINI_API_KEY == FALSE

Min(a, b) == IF a < b THEN a ELSE b
MinOf(S) == CHOOSE x \in S : \A y \in S : x <= y

\* ------------------------------------------------------------ texts
\* What the user may submit: nothing, or a request.
UserRequests == {"", "build a support bot"}
\* What the backend may generate: text, or the empty text.
GeneratedText == "generated text"
EmptyText == ""

\* The ten executeAgent calls of executeAgentOrchestration, in statement order.
Stages ==
  << [agentName |-> "Strategic Planner",        role |-> "planner"],
     [agentName |-> "Requirement Analyzer",     role |-> "analyzer"],
     [agentName |-> "Agent Creator",            role |-> "creator"],
     [agentName |-> "Quality Tester",           role |-> "tester"],
     [agentName |-> "Agent Validator",          role |-> "validator"],
     [agentName |-> "Performance Optimizer",    role |-> "optimizer"],
     [agentName |-> "Documentation Generator",  role |-> "documenter"],
     [agentName |-> "Security Specialist",      role |-> "security"],
     [agentName |-> "Performance Analyst",      role |-> "performance"],
     [agentName |-> "Architecture Setup Agent", role |-> "architecture"] >>
NumStages == Len(Stages)
Roles == {Stages[k].role : k \in 1..NumStages}

\* fallbackResponses of executeAgent: each literal stands by its heading line.
fallbackResponses ==
  [planner      |-> "**Strategic Plan for Customer Service Chatbot**",
   analyzer     |-> "**Requirements Specification**",
   creator      |-> "**Agent Specification**",
   tester       |-> "**Quality Test Results**",
   validator    |-> "**Validation Report**",
   optimizer    |-> "**Performance Optimization**",
   documenter   |-> "**Comprehensive Documentation**",
   security     |-> "**Security Review**",
   performance  |-> "**Final Performance Report**",
   architecture |-> "**Architecture Setup & Deployment Plan**"]

\* agentPrompts[role] with ${input} substituted; an unknown role takes the
\* planner's template.
agentPrompts(role, input) ==
  [template |-> IF role \in Roles THEN role ELSE "planner", input |-> input]

\* ------------------------------------------------------------ backend
\* The error texts the backend answers with, as the words error.toString() holds.
Err429 == <<"429", "Too Many Requests">>
Err503 == <<"503", "Service Unavailable">>
Err500 == <<"500", "Internal Server Error">>
\* String.includes on an error text.
includes(err, word) == \E i \in 1..Len(err) : err[i] = word

BackendModes == {"text", "empty", "ratelimited", "overloaded", "error"}
\* The answer of model.generateContent under each behaviour of the backend.
BackendAnswer(mode) ==
  CASE mode = "text"        -> [ok |-> TRUE,  text |-> GeneratedText, error |-> <<>>]
    [] mode = "empty"       -> [ok |-> TRUE,  text |-> EmptyText,     error |-> <<>>]
    [] mode = "ratelimited" -> [ok |-> FALSE, text |-> "",            error |-> Err429]
    [] mode = "overloaded"  -> [ok |-> FALSE, text |-> "",            error |-> Err503]
    [] OTHER                -> [ok |-> FALSE, text |-> "",            error |-> Err500]

\* ------------------------------------------------------------ GeminiService
\* constructor: the model exists only when a key is configured.
GeminiServiceModel(publicKey, serverKey) == publicKey \/ serverKey

\* rateLimitDelay: the setTimeout it awaits, 0 when it awaits none.
rateLimitDelayMut(timeSinceLastRequest) == 0
rateLimitDelay(timeSinceLastRequest) ==
  IF timeSinceLastRequest < RATE_LIMIT_DELAY
    THEN RATE_LIMIT_DELAY - timeSinceLastRequest
    ELSE 0

\* generateResponse's catch block: what it does with a caught error.
\*   "retry"  wait the cooldown and call generateResponse again
\*   "throw"  reject, with the message given by thrownMessage
isRateLimitError(err) == includes(err, "429") \/ includes(err, "Too Many Requests")
isOverloadedError(err) == includes(err, "503") \/ includes(err, "Service Unavailable")
catchActionMut(err) ==
  IF isRateLimitError(err) \/ isOverloadedError(err) THEN "retry" ELSE "throw"
catchAction(err) == IF isRateLimitError(err) THEN "retry" ELSE "throw"
thrownMessage(err) ==
  IF isOverloadedError(err)
    THEN <<"Model overloaded - using fallback response">>
    ELSE <<"Failed to generate response:">> \o err
NotInitialized == <<"Gemini API not initialized - check API key">>

\* A settled generateResponse promise.
Resolved(text) == [ok |-> TRUE, text |-> text, error |-> <<>>]
Rejected(msg) == [ok |-> FALSE, text |-> "", error |-> msg]
NoCompletion == [ok |-> FALSE, text |-> "", error |-> <<>>]
NoneSent == [stage |-> 0, prompt |-> [template |-> "", input |-> ""]]

\* ------------------------------------------------------------ executeAgent
\* The try/catch around generateResponse: the workflow entry it returns for a
\* settled completion.  The message of the caught error is used only for a role
\* without a registered fallback.
executeAgentMut(agentName, role, input, settled) ==
  [agentName |-> agentName, role |-> role, input |-> input,
   output |-> settled.text, status |-> "completed"]
executeAgentTagged(agentName, role, input, settled) ==
  [agentName |-> agentName, role |-> role, input |-> input,
   output |-> IF settled.ok THEN settled.text ELSE fallbackResponses[role],
   status |-> IF settled.ok THEN "completed" ELSE "failed"]
executeAgentPlannerFallback(agentName, role, input, settled) ==
  [agentName |-> agentName, role |-> role, input |-> input,
   output |-> IF settled.ok THEN settled.text ELSE fallbackResponses["planner"],
   status |-> "completed"]
executeAgent(agentName, role, input, settled) ==
  IF settled.ok
    THEN [agentName |-> agentName, role |-> role, input |-> input,
          output |-> settled.text, status |-> "completed"]
    ELSE [agentName |-> agentName, role |-> role, input |-> input,
          output |-> IF role \in DOMAIN fallbackResponses
                       THEN fallbackResponses[role]
                       ELSE "Error: message",
          status |-> "completed"]

\* The block executeAgentOrchestration appends to orchestrationLog per stage.
StageBlock(result, currentInput) ==
  [kind |-> "stage", agentName |-> result.agentName, status |-> result.status,
   input |-> currentInput, output |-> result.output]

\* The statement after stage k: the next executeAgent call.
nextStageMut(k) == k + 2
nextStage(k) == k + 1

\* The input handed to the stage after a result.
nextInputMut(result, currentInput) == currentInput
nextInput(result, currentInput) == result.output

\* ------------------------------------------------------------ deployment, final agent
\* createFinalAgent: the deployment part of the configuration it returns.
createFinalAgent(userRequest, wf) ==
  [status |-> "ready", deploymentUrl |-> "null", deploymentId |-> "null",
   architecture |-> IF \E k \in 1..Len(wf) : wf[k].role = "architecture"
                      THEN wf[CHOOSE k \in 1..Len(wf) : wf[k].role = "architecture"].output
                      ELSE ""]
NoAgent == [status |-> "none", deploymentUrl |-> "null", deploymentId |-> "null",
            architecture |-> ""]
AfterDeploymentMut(agent, result) == agent
\* The try/catch around deployAgentToVercel; result is what deployAgent
\* returned or threw.
AfterDeployment(agent, result) ==
  IF result.ok
    THEN [agent EXCEPT !.status = "deployed", !.deploymentUrl = result.url,
                       !.deploymentId = result.deploymentId]
    ELSE [agent EXCEPT !.status = "failed"]
DeploymentBlockMut(result) ==
  [kind |-> "deployment-completed", agentName |-> "", status |-> "", input |-> "",
   output |-> result.url]
\* The block the same try/catch appends to orchestrationLog.
DeploymentBlock(result) ==
  [kind |-> IF result.ok THEN "deployment-completed" ELSE "deployment-failed",
   agentName |-> "", status |-> "", input |-> "",
   output |-> IF result.ok THEN result.url ELSE result.error]

\* ------------------------------------------------------------ texts as characters
\* A text is a sequence of characters; a label such as "Core Capabilities:"
\* stands as one element.
MaxJsonLen == 5
JsonChars == {"{", "}", "[", "]", "1", "\"", " "}
RECURSIVE SeqsUpTo(_, _)
SeqsUpTo(S, n) ==
  IF n = 0 THEN {<<>>}
  ELSE LET shorter == SeqsUpTo(S, n - 1)
       IN  shorter \cup {Append(t, c) : t \in {u \in shorter : Len(u) = n - 1}, c \in S}
JsonTexts == SeqsUpTo(JsonChars, MaxJsonLen)

Inner(t) == SubSeq(t, 2, Len(t) - 1)
\* String.prototype.trim
WhiteSpace == {" ", "\n"}
RECURSIVE trim(_)
trim(t) ==
  IF t = <<>> THEN t
  ELSE IF Head(t) \in WhiteSpace THEN trim(Tail(t))
  ELSE IF t[Len(t)] \in WhiteSpace THEN trim(SubSeq(t, 1, Len(t) - 1))
  ELSE t
\* Whether JSON.parse accepts the text: numbers, strings, arrays of at most
\* one value and the empty object are the JSON these characters can spell.
RECURSIVE JSONparses(_)
JSONparses(text) ==
  LET t == trim(text)
      enclosed(open, close) == Len(t) >= 2 /\ t[1] = open /\ t[Len(t)] = close
  IN  \/ t # <<>> /\ \A i \in 1..Len(t) : t[i] = "1"
      \/ enclosed("\"", "\"") /\ \A i \in 2..(Len(t) - 1) : t[i] # "\""
      \/ enclosed("[", "]") /\ (trim(Inner(t)) = <<>> \/ JSONparses(Inner(t)))
      \/ enclosed("{", "}") /\ trim(Inner(t)) = <<>>
\* text.match(/\{[\s\S]*\}|\[[\s\S]*\]/): from the leftmost opening character
\* that has a closing character of its kind after it, to the last such one.
NoMatch == <<"no match">>
Closer(c) == IF c = "{" THEN "}" ELSE "]"
Spans(t) ==
  {i \in 1..Len(t) : t[i] \in {"{", "["} /\ \E j \in (i + 1)..Len(t) : t[j] = Closer(t[i])}
jsonMatch(t) ==
  IF Spans(t) = {} THEN NoMatch
  ELSE LET i == CHOOSE a \in Spans(t) : \A b \in Spans(t) : a <= b
           j == CHOOSE a \in (i + 1)..Len(t) :
                  /\ t[a] = Closer(t[i])
                  /\ \A b \in (a + 1)..Len(t) : t[b] # Closer(t[i])
       IN  SubSeq(t, i, j)
\* What generateStructuredResponse returns for the backend's response text.
Parsed(source) == [fallback |-> FALSE, value |-> source, error |-> "",
                   rawResponse |-> NoMatch]
ParseSentinel(text) ==
  [fallback |-> TRUE, value |-> NoMatch,
   error |-> "Failed to parse AI response as JSON", rawResponse |-> text]
structuredResultMut(response) ==
  IF JSONparses(trim(response)) THEN Parsed(trim(response))
  ELSE ParseSentinel(trim(response))
structuredResult(response) ==
  LET text == trim(response)
      match == jsonMatch(text)
  IN  IF match # NoMatch /\ JSONparses(match) THEN Parsed(match)
      ELSE IF JSONparses(text) THEN Parsed(text)
      ELSE ParseSentinel(text)
NoResult == [fallback |-> FALSE, value |-> NoMatch, error |-> "", rawResponse |-> NoMatch]
\* generateStructuredResponse's outer catch: "retry" waits 60 s and calls
\* generateStructuredResponse again, "resolve" returns the error sentinel.
structuredCatchMut(err) == IF isRateLimitError(err) THEN "retry" ELSE "reject"
structuredCatch(err) == IF isRateLimitError(err) THEN "retry" ELSE "resolve"
ErrorSentinel ==
  [fallback |-> TRUE, value |-> NoMatch,
   error |-> "Failed to generate structured response", rawResponse |-> NoMatch]
\* The texts a backend that answers gives to a structured prompt.
StructuredAnswers == {<<"{", "}">>, <<"[", "}", "]">>, <<"1", "}">>, <<>>}
\* One generateStructuredResponse call: where it is, how often it got past
\* rateLimitDelay, how many generateContent calls it sent, how often it called
\* itself again, and whether its promise rejected.
StructuredIdle == [pc |-> "idle", passes |-> 0, outbound |-> 0, retries |-> 0,
                   rejected |-> FALSE]

\* ------------------------------------------------------------ extractors
\* The specification texts: up to MaxSegments pieces, each a label, a line
\* break, a bullet line, a colour line, the two characters backslash and n,
\* or the letter s.
MaxSegments == 4
Segments ==
  { <<"Core Capabilities:">>, <<"Design & Branding:">>, <<"Personality & Tone:">>,
    <<"\n">>, <<"-", " ", "A", "\n">>, <<"-", " ", "B", "\n">>,
    <<"-", " ", "Primary Color: ", "#3b82f6", "\n">>,
    <<"-", " ", "Secondary Color: ", "#10b981", "\n">>,
    <<"\\", "n">>, <<"s">> }
RECURSIVE Flatten(_)
Flatten(pieces) == IF pieces = <<>> THEN <<>> ELSE Head(pieces) \o Flatten(Tail(pieces))
SectionTexts == {Flatten(pieces) : pieces \in SeqsUpTo(Segments, MaxSegments)}
HexColors == {"#3b82f6", "#10b981"}

\* The regular expression /<label>([\\s\\S]*?)(?=\\n\\n|$)/ as the source
\* spells it, with doubled backslashes: the group is the shortest run of the
\* characters backslash, s and S after the label that is followed by the four
\* characters backslash n backslash n or by the end of the text.
GroupClass == {"\\", "s", "S"}
GroupEnd == <<"\\", "n", "\\", "n">>
Lookahead(text, p) ==
  \/ p = Len(text) + 1
  \/ p + 3 <= Len(text) /\ SubSeq(text, p, p + 3) = GroupEnd
Groups(text, i) ==
  {k \in 0..(Len(text) - i) :
     /\ \A m \in 1..k : text[i + m] \in GroupClass
     /\ Lookahead(text, i + k + 1)}
sectionMatch(text, label) ==
  LET starts == {i \in 1..Len(text) : text[i] = label /\ Groups(text, i) # {}}
  IN  IF starts = {} THEN NoMatch
      ELSE LET i == CHOOSE a \in starts : \A b \in starts : a <= b
               k == CHOOSE a \in Groups(text, i) : \A b \in Groups(text, i) : a <= b
           IN  SubSeq(text, i + 1, i + k)

\* String.prototype.split with a separator of several characters.
RECURSIVE split(_, _)
split(t, sep) ==
  LET hits == {i \in 1..(Len(t) - Len(sep) + 1) : SubSeq(t, i, i + Len(sep) - 1) = sep}
  IN  IF hits = {} THEN <<t>>
      ELSE LET i == CHOOSE a \in hits : \A b \in hits : a <= b
           IN  <<SubSeq(t, 1, i - 1)>> \o split(SubSeq(t, i + Len(sep), Len(t)), sep)
startsWith(t, c) == t # <<>> /\ Head(t) = c
\* String.prototype.replace(c, ''): the first occurrence only.
RECURSIVE replaceFirst(_, _)
replaceFirst(t, c) ==
  IF t = <<>> THEN t
  ELSE IF Head(t) = c THEN Tail(t)
  ELSE <<Head(t)>> \o replaceFirst(Tail(t), c)
\* String.prototype.replace(/[..]/g, '')
RECURSIVE replaceAll(_, _)
replaceAll(t, C) ==
  IF t = <<>> THEN t
  ELSE IF Head(t) \in C THEN replaceAll(Tail(t), C)
  ELSE <<Head(t)>> \o replaceAll(Tail(t), C)
RECURSIVE BulletItems(_)
BulletItems(lines) ==
  IF lines = <<>> THEN <<>>
  ELSE LET item == trim(replaceFirst(Head(lines), "-"))
       IN  IF startsWith(trim(Head(lines)), "-") /\ item # <<>>
             THEN <<item>> \o BulletItems(Tail(lines))
             ELSE BulletItems(Tail(lines))

DefaultDescription == <<"Professional customer service assistant">>
DefaultCapabilities == << <<"communication">>, <<"problem-solving">>, <<"customer-service">> >>
DefaultPrimary == "#8b5cf6"
DefaultSecondary == "#7c3aed"
DefaultAvatar == <<"shopping bags">>

extractDescription(specification) ==
  LET match == sectionMatch(specification, "Personality & Tone:")
  IN  IF match # NoMatch THEN trim(replaceAll(match, {"-", "bullet"}))
      ELSE DefaultDescription
extractCapabilities(specification) ==
  LET match == sectionMatch(specification, "Core Capabilities:")
  IN  IF match # NoMatch THEN BulletItems(split(match, <<"\\", "n">>))
      ELSE DefaultCapabilities
\* /<label>(#[a-fA-F0-9]{6})/ on the design text.
colorMatch(designText, label) ==
  LET hits == {i \in 1..(Len(designText) - 1) :
                 designText[i] = label /\ designText[i + 1] \in HexColors}
  IN  IF hits = {} THEN "no match"
      ELSE designText[(CHOOSE a \in hits : \A b \in hits : a <= b) + 1]
\* /Avatar: ([^\\n]+)/: the run of characters other than backslash and n.
avatarMatch(designText) ==
  LET hits == {i \in 1..(Len(designText) - 1) :
                 designText[i] = "Avatar: " /\ designText[i + 1] \notin {"\\", "n"}}
  IN  IF hits = {} THEN NoMatch
      ELSE LET i == CHOOSE a \in hits : \A b \in hits : a <= b
               j == CHOOSE a \in (i + 1)..Len(designText) :
                      /\ \A b \in (i + 1)..a : designText[b] \notin {"\\", "n"}
                      /\ a = Len(designText) \/ designText[a + 1] \in {"\\", "n"}
           IN  SubSeq(designText, i + 1, j)
Either(found, default, none) == IF found # none THEN found ELSE default
extractDesign(specification) ==
  LET designMatch == sectionMatch(specification, "Design & Branding:")
      designText == IF designMatch # NoMatch THEN designMatch ELSE <<>>
  IN  [primaryColor |-> Either(colorMatch(designText, "Primary Color: "),
                               DefaultPrimary, "no match"),
       secondaryColor |-> Either(colorMatch(designText, "Secondary Color: "),
                                 DefaultSecondary, "no match"),
       accentColor |-> "#a78bfa", fontFamily |-> "Inter",
       avatar |-> Either(avatarMatch(designText), DefaultAvatar, NoMatch)]
\* The user's request as its space-separated words; '' splits into [''].
RequestWords == { <<"">>, <<"build", "a", "support", "bot">> }
Capitalized ==
  [w \in {"", "build", "a", "support", "bot"} |->
     CASE w = "build" -> "Build" [] w = "a" -> "A" [] w = "support" -> "Support"
       [] w = "bot" -> "Bot" [] OTHER -> ""]
extractAgentName(words) ==
  LET first == SubSeq(words, 1, Min(3, Len(words)))
  IN  [i \in 1..Len(first) |-> Capitalized[first[i]]] \o <<"Agent">>
\* generateAgentCode: the entries of the object it returns, path and content;
\* a content is the extracted values its template interpolates.
File(path, content) == [path |-> path, content |-> content]
generateAgentCodeMut(words, specification) ==
  << File("app/page.tsx", <<extractDesign(specification).primaryColor>>) >>
    \o (IF words = <<"">> THEN <<>>
        ELSE << File("README.md", extractAgentName(words)) >>)
generateAgentCode(words, specification) ==
  LET design == extractDesign(specification)
  IN  << File("app/page.tsx",
              extractAgentName(words) \o extractDescription(specification)
                \o <<design.primaryColor, design.secondaryColor, design.accentColor,
                     design.fontFamily>>),
         File("app/api/chat/route.ts", <<>>),
         File("app/layout.tsx",
              extractAgentName(words) \o extractDescription(specification)),
         File("app/globals.css", <<design.fontFamily>>),
         File("package.json", extractAgentName(words)),
         File("next.config.js", <<>>),
         File("tsconfig.json", <<>>),
         File("README.md", extractAgentName(words)) >>
\* The fields createFinalAgent extracts from the request and the creator's output.
extractedFields(words, creatorOutput) ==
  [name |-> extractAgentName(words),
   generatedCode |-> generateAgentCode(words, creatorOutput),
   description |-> extractDescription(creatorOutput),
   skills |-> extractCapabilities(creatorOutput),
   design |-> extractDesign(creatorOutput)]
NotBuilt == [name |-> <<>>, generatedCode |-> <<>>, description |-> <<>>, skills |-> <<>>,
             design |-> [primaryColor |-> "", secondaryColor |-> "", accentColor |-> "",
                         fontFamily |-> "", avatar |-> <<>>]]

\* ------------------------------------------------------------ VercelService
\* What the `vercel --prod` command run by execSync did: how it ended, and
\* which deployment URL its captured output holds ("production": a
\* "Production: https://...vercel.app" line; "other": some vercel.app URL).
CommandExits == {"completed", "failed", "timeout"}
CommandOutputs == {"production", "other", "none"}
CommandOutcomes == [exit : CommandExits, output : CommandOutputs]
NoCommand == [exit |-> "none", output |-> "none"]
\* The calls that create a temporary project directory.
Deployments == Runs \X {"deployAgent", "deployToVercel"}

Deployed(id, dir) == [ok |-> TRUE, url |-> "url", deploymentId |-> id, error |-> "",
                      tempDir |-> dir]
DeployFailed(msg, dir) == [ok |-> FALSE, url |-> "null", deploymentId |-> "null",
                           error |-> msg, tempDir |-> dir]
NotCalled == DeployFailed("", "none")
\* The inner catch (execError): a vercel.app URL in the failed command's output
\* is returned as a deployment; the directory is not removed on either branch.
execErrorMut(output) == DeployFailed("Vercel deployment failed", "exists")
execError(output) ==
  IF output # "none"
    THEN Deployed("dpl", "exists")
    ELSE DeployFailed("Vercel deployment failed", "exists")
\* The body shared by deployAgent and deployToVercel: token check, project
\* directory, execSync with its 120 s timeout, URL extraction, fs.rmSync on the
\* two returns of the try block.  tempDir is the directory's state afterwards.
runVercel(tokenSet, cmd) ==
  IF ~tokenSet THEN DeployFailed("VERCEL_TOKEN is required", "none")
  ELSE IF cmd.exit = "completed"
    THEN IF cmd.output = "production" THEN Deployed("id", "removed")
         ELSE IF cmd.output = "other" THEN Deployed("dpl", "removed")
         ELSE execError("none")
    ELSE execError(cmd.output)
deployAgent(tokenSet, generatedCode, cmd) ==
  IF tokenSet /\ ~generatedCode
    THEN DeployFailed("No generated code found", "none")
    ELSE runVercel(tokenSet, cmd)
deployToVercel(tokenSet, cmd) == runVercel(tokenSet, cmd)

\* ExportService.exportAgent: a vercel export deploys the generated project.
ExportPlatforms == {"vercel", "local"}
NoExport == [platform |-> "none", deploymentStatus |-> "none", deploymentUrl |-> "null"]
exportAgent(platform, result) ==
  IF platform = "vercel"
    THEN IF result.ok
           THEN [platform |-> platform, deploymentStatus |-> "success",
                 deploymentUrl |-> result.url]
           ELSE [platform |-> platform, deploymentStatus |-> "failed",
                 deploymentUrl |-> "null"]
    ELSE [platform |-> platform, deploymentStatus |-> "none", deploymentUrl |-> "null"]

\* ------------------------------------------------------------ HTTP
\* GET /api/orchestrator/status: the status code it answers with.
GETStatus(apiKey) == IF ~apiKey THEN 503 ELSE 200
\* Response.ok
ResponseOk(status) == status >= 200 /\ status <= 299
\* checkApiAvailability: response.ok, or false when fetch throws.
checkApiAvailabilityMut(fetched, status) == TRUE
checkApiAvailability(fetched, status) == fetched /\ ResponseOk(status)
\* POST /api/orchestrator: the validation before any work; 0 lets the run start.
POSTValidationMut(userRequest, apiKey) == 0
POSTValidation(userRequest, apiKey) ==
  IF userRequest = "" THEN 400
  ELSE IF ~apiKey THEN 503
  ELSE 0
NoResponse == [status |-> 0, response |-> <<>>, finalAgent |-> NoAgent, workflow |-> <<>>]

\* POST /api/test up to its answer: the checks in their order, then two
\* completion calls made with the SDK directly; any throw is answered 500.
\* agent is "absent", "malformed" (a field the prompt reads is missing) or
\* "valid".  The result is the status code and the completion calls made.
Answer(endpoint, status, calls) == [endpoint |-> endpoint, status |-> status, calls |-> calls]
NoAnswer == Answer("none", 0, 0)
POSTTestMut(parsed, agent, testScenario, apiKey, mode) ==
  IF BackendAnswer(mode).ok THEN Answer("test", 200, 2) ELSE Answer("test", 500, 1)
POSTTest(parsed, agent, testScenario, apiKey, mode) ==
  IF ~parsed THEN Answer("test", 500, 0)
  ELSE IF agent = "absent" THEN Answer("test", 400, 0)
  ELSE IF ~testScenario THEN Answer("test", 400, 0)
  ELSE IF ~apiKey THEN Answer("test", 500, 0)
  ELSE IF agent = "malformed" THEN Answer("test", 500, 0)
  ELSE IF BackendAnswer(mode).ok THEN Answer("test", 200, 2)
  ELSE Answer("test", 500, 1)
\* POST /api/chat.
POSTChat(parsed, message, apiKey, mode) ==
  IF ~parsed THEN Answer("chat", 500, 0)
  ELSE IF ~message THEN Answer("chat", 400, 0)
  ELSE IF ~apiKey THEN Answer("chat", 500, 0)
  ELSE IF BackendAnswer(mode).ok THEN Answer("chat", 200, 1)
  ELSE Answer("chat", 500, 1)

\* ExportService.generateAgentCode: the files pushed for a format.
ExportFormats == {"nextjs", "react", "html"}
ExportConfigs == [format : ExportFormats, platform : ExportPlatforms, includeApi : BOOLEAN]
NoConfig == [format |-> "none", platform |-> "none", includeApi |-> FALSE]
ExportService_generateAgentCodeMut(config) == <<"package.json">>
ExportService_generateAgentCode(config) ==
  <<"package.json">>
  \o (IF config.format = "nextjs"
        THEN <<"app/page.tsx", "app/api/chat/route.ts", "app/globals.css",
               "app/layout.tsx", "public/favicon.ico">>
        ELSE IF config.format = "react" THEN <<"src/App.tsx">> ELSE <<>>)
  \o <<"README.md">>
  \o (IF config.includeApi THEN <<".env.example">> ELSE <<>>)
\* The ExportedAgent exportAgent returns: the generated files and, on the
\* vercel platform, the deployment fields.
ExportedAgent(config, result) ==
  [files |-> ExportService_generateAgentCode(config)] @@ exportAgent(config.platform, result)
NoExportedAgent == [files |-> <<>>] @@ NoExport
\* POST /api/export; agent is "absent", "malformed" (generateAgentCode throws
\* on it, which exportAgent rethrows) or "valid".
ExportResponse(status, success, exportedAgent) ==
  [status |-> status, success |-> success, exportedAgent |-> exportedAgent]
NoExportResponse == ExportResponse(0, FALSE, NoExportedAgent)
ExportDeploys(parsed, agent, config) ==
  parsed /\ agent = "valid" /\ config # NoConfig /\ config.platform = "vercel"
POSTExport(parsed, agent, config, result) ==
  IF ~parsed THEN ExportResponse(500, FALSE, NoExportedAgent)
  ELSE IF agent = "absent" THEN ExportResponse(400, FALSE, NoExportedAgent)
  ELSE IF config = NoConfig THEN ExportResponse(400, FALSE, NoExportedAgent)
  ELSE IF agent = "malformed" THEN ExportResponse(500, FALSE, NoExportedAgent)
  ELSE ExportResponse(200, TRUE, ExportedAgent(config, result))
NoExportRequest == [from |-> "none", parsed |-> FALSE, agent |-> "absent", config |-> NoConfig]
\* The exportConfig handleDeployAgent sends.
DeployExportConfig == [format |-> "nextjs", platform |-> "vercel", includeApi |-> TRUE]

\* The page's current agent: metadata.status and metadata.updated.
AgentStatuses == {"draft", "testing", "deployed", "archived"}
Agent(status, updated) == [metadata |-> [status |-> status, updated |-> updated]]
handleAgentUpdateMut(prev, updates) == updates @@ prev
\* handleAgentUpdate: { ...prev, ...updates, metadata: { ...prev.metadata,
\* updated: new Date() } }; the metadata key written last replaces the one
\* spread from updates.
handleAgentUpdate(prev, updates) ==
  [metadata |-> [prev.metadata EXCEPT !.updated = "now"]] @@ (updates @@ prev)
\* handleDeployAgent after its fetch: the response is applied to the agent.
AfterExport(agent, fetched, resp) ==
  IF fetched /\ ResponseOk(resp.status) /\ resp.success
     /\ resp.exportedAgent # NoExportedAgent
    THEN handleAgentUpdate(agent, [metadata |-> [agent.metadata EXCEPT !.status = "deployed"]])
    ELSE agent

\* ------------------------------------------------------------ OrchestratorAgent
NoRequest ==
  [userRequest |-> "", status |-> "none", stepDescription |-> "",
   generatedAgents |-> <<>>, conversationHistory |-> <<>>]
Message(role, kind, userRequest, log) ==
  [role |-> role, kind |-> kind, userRequest |-> userRequest, log |-> log,
   error |-> <<>>]
\* The errors processUserRequest's catch block can receive: the one it throws
\* for a non-OK answer, and the one fetch rejects with.
StatusText(status) ==
  CASE status = 400 -> "400" [] status = 503 -> "503" [] OTHER -> "500"
ApiCallFailed(status) == <<"API call failed", StatusText(status)>>
FetchFailed == <<"Failed to fetch">>
\* generateErrorResponse: the request and error.message inside a fixed text.
generateErrorResponse(userRequest, error) ==
  [Message("assistant", "error", userRequest, <<>>) EXCEPT !.error = error]
\* processUserRequest up to its first await.
NewRequest(userRequest) ==
  [userRequest |-> userRequest, status |-> "processing",
   stepDescription |-> "Analyzing your request and planning agent generation...",
   generatedAgents |-> <<>>,
   conversationHistory |-> << Message("user", "request", userRequest, <<>>) >>]
DemoCompletedMut(req) ==
  [req EXCEPT !.status = "completed",
              !.generatedAgents = <<"demo-agent-1">>,
              !.conversationHistory =
                 Append(@, Message("assistant", "demo", req.userRequest, <<>>))]
\* The branch taken when the probe reports unavailable.
DemoCompleted(req) ==
  [req EXCEPT !.status = "completed",
              !.stepDescription = "API not configured - using demo mode",
              !.generatedAgents = <<"demo-agent-1", "demo-agent-2">>,
              !.conversationHistory =
                 Append(@, Message("assistant", "demo", req.userRequest, <<>>))]
ServerCompletedMut(req, resp) == [req EXCEPT !.status = "completed"]
\* The branch taken on the server's 2xx answer.  The POST answer carries no
\* generatedAgents field, so the list falls to [].
ServerCompleted(req, resp) ==
  [req EXCEPT !.status = "completed",
              !.stepDescription = "Orchestration completed successfully",
              !.generatedAgents = <<>>,
              !.conversationHistory =
                 Append(@, Message("assistant",
                                   IF resp.response = <<>> THEN "default" ELSE "server",
                                   "", resp.response))]
ErrorCompletedMut(req, error) ==
  [req EXCEPT !.status = "completed",
              !.conversationHistory =
                 Append(@, generateErrorResponse(req.userRequest, error))]
\* The catch block of processUserRequest.
ErrorCompleted(req, error) ==
  [req EXCEPT !.status = "completed",
              !.stepDescription = "Completed with fallback response",
              !.generatedAgents = <<"fallback-agent-1">>,
              !.conversationHistory =
                 Append(@, generateErrorResponse(req.userRequest, error))]

\* ------------------------------------------------------------ state
VARIABLES
  GEMINI_API_KEY,    \* whether the server environment holds the credential
  backend,           \* the backend's current behaviour
  backendChanges,    \* how often it has changed
  pc,                \* where each run is suspended
  request,           \* the OrchestratorRequest of each run
  httpResponse,      \* the answer of POST /api/orchestrator to each run
  stage,             \* the executeAgent call a run is in
  currentInput,      \* executeAgentOrchestration's currentInput
  workflow,          \* executeAgentOrchestration's workflow
  orchestrationLog,  \* executeAgentOrchestration's orchestrationLog, as blocks
  finalAgent,        \* the deployment part of finalAgentConfig
  model,             \* this.model of the run's GeminiService
  sinceLastRequest,  \* Date.now() - this.lastRequestTime, saturating
  timer,             \* time left of the awaited setTimeout or backend call
  completion,        \* the settled generateResponse promise of the stage
  sent,              \* the latest outbound request: its stage and prompt
  attempts,          \* outbound requests of the current generateResponse invocation
  overloaded,        \* the current invocation has caught an Overloaded answer
  answers,           \* the backend behaviours the run's requests have met
  completions,       \* the settled completion behind each workflow entry
  posted,            \* the run has sent its POST
  callNo,            \* outbound requests of the run's service, saturating
  sinceFirst,        \* time since the service's first outbound request, saturating
  firstToCall,       \* sinceFirst at the service's latest outbound request
  gap,               \* time between the service's two latest outbound requests
  sinceOutbound,     \* time since the process's latest outbound request, saturating
  processGap,        \* time between the process's two latest outbound requests
  VERCEL_TOKEN,      \* whether the server environment holds the Vercel token
  cli,               \* what the vercel command of each deployment call did
  deployed,          \* what each deployment call returned or threw
  tempDir,           \* the temporary project directory of each deployment call
  exported,          \* the ExportedAgent's deployment fields, per run
  response,          \* the response text a structured completion call received
  structured,        \* what generateStructuredResponse returned for it
  specification,     \* a creator output handed to createFinalAgent
  built,             \* the fields createFinalAgent extracted from it
  body,              \* the userRequest of a POST sent to /api/orchestrator directly
  served,            \* the answer of /api/orchestrator/status, /api/test or /api/chat
  currentAgent,      \* the page's current agent
  loadedStatus,      \* metadata.status of the agent as it was set as current
  deployPc,          \* where handleDeployAgent is: "idle", "exporting", "finished"
  exportRequest,     \* the POST to /api/export in flight
  exportResponse,    \* its answer
  structuredCall     \* a generateStructuredResponse call

envVars == <<GEMINI_API_KEY, backend, backendChanges>>
clientVars == <<request, posted>>
serverVars == <<httpResponse, stage, currentInput, workflow, orchestrationLog,
                finalAgent, completions>>
serviceVars == <<model, sinceLastRequest, timer, completion, sent, attempts, overloaded,
                 answers>>
gateVars == <<callNo, sinceFirst, firstToCall, gap, sinceOutbound, processGap>>
deployVars == <<VERCEL_TOKEN, cli, deployed, tempDir, exported>>
textVars == <<response, structured, specification, built>>
builderVars == <<currentAgent, loadedStatus, deployPc, exportRequest, exportResponse>>
endpointVars == <<body, served, builderVars, structuredCall>>
vars == <<envVars, pc, clientVars, serverVars, serviceVars, gateVars, deployVars,
          textVars, endpointVars>>

Timed == {"gate", "inflight", "cooldown"}
Saturate(t, cap) == Min(t, cap)

InitPipeline ==
  /\ GEMINI_API_KEY \in BOOLEAN
  /\ backend \in BackendModes
  /\ backendChanges = 0
  /\ pc = [r \in Runs |-> "idle"]
  /\ request = [r \in Runs |-> NoRequest]
  /\ posted = [r \in Runs |-> FALSE]
  /\ httpResponse = [r \in Runs |-> NoResponse]
  /\ stage = [r \in Runs |-> 0]
  /\ currentInput = [r \in Runs |-> ""]
  /\ workflow = [r \in Runs |-> <<>>]
  /\ orchestrationLog = [r \in Runs |-> <<>>]
  /\ finalAgent = [r \in Runs |-> NoAgent]
  /\ completions = [r \in Runs |-> <<>>]
  /\ model = [r \in Runs |-> FALSE]
  /\ sinceLastRequest = [r \in Runs |-> RATE_LIMIT_DELAY]
  /\ timer = [r \in Runs |-> 0]
  /\ completion = [r \in Runs |-> NoCompletion]
  /\ sent = [r \in Runs |-> NoneSent]
  /\ attempts = [r \in Runs |-> 0]
  /\ overloaded = [r \in Runs |-> FALSE]
  /\ answers = [r \in Runs |-> {}]
  /\ callNo = [r \in Runs |-> 0]
  /\ sinceFirst = [r \in Runs |-> 0]
  /\ firstToCall = [r \in Runs |-> 0]
  /\ gap = [r \in Runs |-> RATE_LIMIT_DELAY]
  /\ sinceOutbound = RATE_LIMIT_DELAY
  /\ processGap = RATE_LIMIT_DELAY
  /\ VERCEL_TOKEN \in BOOLEAN
  /\ cli = [d \in Deployments |-> NoCommand]
  /\ deployed = [d \in Deployments |-> NotCalled]
  /\ tempDir = [d \in Deployments |-> "none"]
  /\ exported = [r \in Runs |-> NoExport]
  /\ structured = NoResult
  /\ built = NotBuilt
  /\ body = [r \in Runs |-> "none"]
  /\ served = NoAnswer
  /\ currentAgent = Agent("draft", "created")
  /\ loadedStatus = "draft"
  /\ deployPc = "idle"
  /\ exportRequest = NoExportRequest
  /\ exportResponse = NoExportResponse
  /\ structuredCall = StructuredIdle
\* The pipeline's initial states: no text is handed to the pure functions.
Init == InitPipeline /\ response = <<>> /\ specification = <<>>
\* The initial states of the text functions: one input text is drawn, for the
\* structured parser or for the extractors; no run is submitted.
InitText ==
  /\ InitPipeline /\ GEMINI_API_KEY /\ ~VERCEL_TOKEN /\ backend = "text"
  /\ \/ response \in JsonTexts /\ specification = <<>>
     \/ response = <<>> /\ specification \in SectionTexts

\* ------------------------------------------------------------ actions
\* The POST handler has answered the run with 200.
ServerReturned(r) == httpResponse[r].status = 200
\* generateResponse up to its first await: without a model it throws inside its
\* own try and rejects; otherwise it enters rateLimitDelay, which reads the clock
\* and awaits the remaining delay.
GenerateResponseEntry(hasModel, timeSinceLastRequest) ==
  IF ~hasModel
    THEN [pc |-> "settled", timer |-> 0,
          completion |-> Rejected(thrownMessage(NotInitialized))]
    ELSE [pc |-> "gate", timer |-> rateLimitDelay(timeSinceLastRequest),
          completion |-> NoCompletion]

\* processUserRequest is called: the request is recorded and the probe is sent.
Submit(r) ==
  /\ pc[r] = "idle"
  /\ \E userRequest \in UserRequests :
       request' = [request EXCEPT ![r] = NewRequest(userRequest)]
  /\ pc' = [pc EXCEPT ![r] = "probing"]
  /\ UNCHANGED <<envVars, endpointVars, textVars, deployVars, posted, serverVars, serviceVars, gateVars>>

\* One submission at a time: the single-user scenario.
SubmitAlone(r) ==
  /\ \A s \in Runs : pc[s] = "idle"
  /\ Submit(r)

\* checkApiAvailability settles: GET /api/orchestrator/status has answered, or
\* the fetch has thrown.  Unavailable ends the run in demo mode; available sends
\* the POST.
ProbeReturn(r) ==
  /\ pc[r] = "probing"
  /\ \E fetched \in BOOLEAN :
       IF ~checkApiAvailability(fetched, GETStatus(GEMINI_API_KEY))
         THEN /\ request' = [request EXCEPT ![r] = DemoCompleted(@)]
              /\ pc' = [pc EXCEPT ![r] = "done"]
              /\ UNCHANGED posted
         ELSE /\ posted' = [posted EXCEPT ![r] = TRUE]
              /\ pc' = [pc EXCEPT ![r] = "posting"]
              /\ UNCHANGED request
  /\ UNCHANGED <<envVars, endpointVars, textVars, deployVars, serverVars, serviceVars, gateVars>>

\* The POST reaches the server (or the fetch throws).  The handler validates,
\* constructs the run's GeminiService and runs executeAgentOrchestration up to
\* the first await of the first stage's generateResponse.
PostArrive(r) ==
  /\ pc[r] = "posting"
  /\ \E fetched \in BOOLEAN :
       LET code == POSTValidation(request[r].userRequest, GEMINI_API_KEY)
           hasModel == GeminiServiceModel(NEXT_PUBLIC_GEMINI_API_KEY, GEMINI_API_KEY)
           entry == GenerateResponseEntry(hasModel, sinceLastRequest[r])
       IN  IF ~fetched
             THEN /\ request' = [request EXCEPT ![r] = ErrorCompleted(@, FetchFailed)]
                  /\ pc' = [pc EXCEPT ![r] = "done"]
                  /\ UNCHANGED <<httpResponse, stage, currentInput, model, timer,
                                 completion>>
           ELSE IF code # 0
             THEN /\ httpResponse' = [httpResponse EXCEPT ![r] =
                                        [NoResponse EXCEPT !.status = code]]
                  /\ pc' = [pc EXCEPT ![r] = "responding"]
                  /\ UNCHANGED <<request, stage, currentInput, model, timer, completion>>
           ELSE   /\ model' = [model EXCEPT ![r] = hasModel]
                  /\ stage' = [stage EXCEPT ![r] = 1]
                  /\ currentInput' = [currentInput EXCEPT ![r] = request[r].userRequest]
                  /\ pc' = [pc EXCEPT ![r] = entry.pc]
                  /\ timer' = [timer EXCEPT ![r] = entry.timer]
                  /\ completion' = [completion EXCEPT ![r] = entry.completion]
                  /\ UNCHANGED <<request, httpResponse>>
  /\ UNCHANGED <<envVars, endpointVars, textVars, deployVars, posted, workflow, orchestrationLog, finalAgent, completions,
                 sinceLastRequest, sent, attempts, overloaded, answers, gateVars>>

\* rateLimitDelay's wait is over: lastRequestTime is set to now and the prompt
\* goes to the backend (model.generateContent).
GateOpen(r) ==
  /\ pc[r] = "gate"
  /\ timer[r] = 0
  /\ sinceLastRequest' = [sinceLastRequest EXCEPT ![r] = 0]
  /\ sent' = [sent EXCEPT ![r] =
                [stage |-> stage[r],
                 prompt |-> agentPrompts(Stages[stage[r]].role, currentInput[r])]]
  /\ \E latency \in Latencies : timer' = [timer EXCEPT ![r] = latency]
  /\ pc' = [pc EXCEPT ![r] = "inflight"]
  /\ attempts' = [attempts EXCEPT ![r] = Saturate(@ + 1, MaxAttempts)]
  /\ gap' = [gap EXCEPT ![r] = sinceLastRequest[r]]
  /\ processGap' = sinceOutbound
  /\ sinceOutbound' = 0
  /\ IF callNo[r] < MaxCalls
       THEN /\ callNo' = [callNo EXCEPT ![r] = @ + 1]
            /\ firstToCall' = [firstToCall EXCEPT ![r] = sinceFirst[r]]
       ELSE UNCHANGED <<callNo, firstToCall>>
  /\ UNCHANGED <<envVars, endpointVars, textVars, deployVars, clientVars, serverVars, model, completion, overloaded, answers,
                 sinceFirst>>

\* The backend answers.  Text resolves generateResponse; an error runs its catch
\* block, which either starts the cooldown before calling generateResponse again
\* or rejects.
Respond(r) ==
  /\ pc[r] = "inflight"
  /\ timer[r] = 0
  /\ LET answer == BackendAnswer(backend)
     IN  /\ answers' = [answers EXCEPT ![r] = @ \cup {backend}]
         /\ overloaded' = [overloaded EXCEPT ![r] =
                             @ \/ (~answer.ok /\ answer.error = Err503)]
         /\ IF answer.ok
              THEN /\ completion' = [completion EXCEPT ![r] = Resolved(answer.text)]
                   /\ pc' = [pc EXCEPT ![r] = "settled"]
                   /\ UNCHANGED timer
            ELSE IF catchAction(answer.error) = "retry"
              THEN /\ timer' = [timer EXCEPT ![r] = RETRY_COOLDOWN]
                   /\ pc' = [pc EXCEPT ![r] = "cooldown"]
                   /\ UNCHANGED completion
            ELSE   /\ completion' = [completion EXCEPT ![r] =
                                       Rejected(thrownMessage(answer.error))]
                   /\ pc' = [pc EXCEPT ![r] = "settled"]
                   /\ UNCHANGED timer
  /\ UNCHANGED <<envVars, endpointVars, textVars, deployVars, clientVars, serverVars, model, sinceLastRequest, sent, attempts,
                 gateVars>>

\* The cooldown is over: generateResponse calls itself.
CooldownOver(r) ==
  /\ pc[r] = "cooldown"
  /\ timer[r] = 0
  /\ LET entry == GenerateResponseEntry(model[r], sinceLastRequest[r])
     IN  /\ pc' = [pc EXCEPT ![r] = entry.pc]
         /\ timer' = [timer EXCEPT ![r] = entry.timer]
         /\ completion' = [completion EXCEPT ![r] = entry.completion]
  /\ UNCHANGED <<envVars, endpointVars, textVars, deployVars, clientVars, serverVars, model, sinceLastRequest, sent, attempts,
                 overloaded, answers, gateVars>>

\* executeAgent returns to executeAgentOrchestration, which records the result
\* and either calls the next stage's executeAgent or, after the last stage,
\* builds the final agent and calls deployAgentToVercel.
StageReturn(r) ==
  /\ pc[r] = "settled"
  /\ LET result == executeAgent(Stages[stage[r]].agentName, Stages[stage[r]].role,
                                currentInput[r], completion[r])
         entry == GenerateResponseEntry(model[r], sinceLastRequest[r])
         wf == Append(workflow[r], result)
     IN  /\ workflow' = [workflow EXCEPT ![r] = wf]
         /\ completions' = [completions EXCEPT ![r] = Append(@, completion[r])]
         /\ orchestrationLog' = [orchestrationLog EXCEPT ![r] =
                                   Append(@, StageBlock(result, currentInput[r]))]
         /\ currentInput' = [currentInput EXCEPT ![r] = nextInput(result, currentInput[r])]
         /\ IF nextStage(stage[r]) <= NumStages
              THEN /\ stage' = [stage EXCEPT ![r] = nextStage(@)]
                   /\ pc' = [pc EXCEPT ![r] = entry.pc]
                   /\ timer' = [timer EXCEPT ![r] = entry.timer]
                   /\ completion' = [completion EXCEPT ![r] = entry.completion]
                   /\ UNCHANGED finalAgent
              ELSE /\ finalAgent' = [finalAgent EXCEPT ![r] =
                                       createFinalAgent(request[r].userRequest, wf)]
                   /\ pc' = [pc EXCEPT ![r] = "deploying"]
                   /\ UNCHANGED <<stage, timer, completion>>
  /\ attempts' = [attempts EXCEPT ![r] = 0]
  /\ overloaded' = [overloaded EXCEPT ![r] = FALSE]
  /\ UNCHANGED <<envVars, endpointVars, textVars, deployVars, clientVars, httpResponse, model, sinceLastRequest, sent, answers,
                 gateVars>>

\* deployAgentToVercel settles; executeAgentOrchestration returns and the POST
\* handler answers 200.
DeployReturn(r) ==
  /\ pc[r] = "deploying"
  /\ \E cmd \in IF VERCEL_TOKEN THEN CommandOutcomes ELSE {NoCommand} :
       LET d == <<r, "deployAgent">>
           result == deployAgent(VERCEL_TOKEN, TRUE, cmd)
           agent == AfterDeployment(finalAgent[r], result)
           log == Append(orchestrationLog[r], DeploymentBlock(result))
       IN  /\ cli' = [cli EXCEPT ![d] = cmd]
           /\ deployed' = [deployed EXCEPT ![d] = result]
           /\ tempDir' = [tempDir EXCEPT ![d] = result.tempDir]
           /\ finalAgent' = [finalAgent EXCEPT ![r] = agent]
           /\ orchestrationLog' = [orchestrationLog EXCEPT ![r] = log]
           /\ httpResponse' = [httpResponse EXCEPT ![r] =
                                 [status |-> 200, response |-> log, finalAgent |-> agent,
                                  workflow |-> workflow[r]]]
  /\ pc' = [pc EXCEPT ![r] = "responding"]
  /\ UNCHANGED <<envVars, endpointVars, textVars, clientVars, stage, currentInput, workflow, completions,
                 serviceVars, gateVars, VERCEL_TOKEN, exported>>

ExportAgentMut(r) ==
  /\ pc[r] = "done" /\ ServerReturned(r)
  /\ exported[r] = NoExport
  /\ exported' = [exported EXCEPT ![r] = exportAgent("local", NotCalled)]
  /\ request' = [request EXCEPT ![r].stepDescription = "Exported"]
  /\ UNCHANGED <<envVars, endpointVars, textVars, pc, posted, serverVars, serviceVars, gateVars,
                 VERCEL_TOKEN, cli, deployed, tempDir>>
\* The finished run's agent is exported (ExportService.exportAgent); on the
\* vercel platform the export calls deployToVercel.
ExportAgent(r) ==
  /\ pc[r] = "done" /\ ServerReturned(r)
  /\ exported[r] = NoExport
  /\ \E platform \in ExportPlatforms,
        cmd \in IF VERCEL_TOKEN THEN CommandOutcomes ELSE {NoCommand} :
       LET d == <<r, "deployToVercel">>
           result == deployToVercel(VERCEL_TOKEN, cmd)
       IN  /\ exported' = [exported EXCEPT ![r] = exportAgent(platform, result)]
           /\ IF platform = "vercel"
                THEN /\ cli' = [cli EXCEPT ![d] = cmd]
                     /\ deployed' = [deployed EXCEPT ![d] = result]
                     /\ tempDir' = [tempDir EXCEPT ![d] = result.tempDir]
                ELSE UNCHANGED <<cli, deployed, tempDir>>
  /\ UNCHANGED <<envVars, endpointVars, textVars, pc, clientVars, serverVars, serviceVars, gateVars,
                 VERCEL_TOKEN>>

\* The POST's answer reaches processUserRequest: a non-OK answer is thrown into
\* its catch block.
ClientReceive(r) ==
  /\ pc[r] = "responding" /\ posted[r]
  /\ request' = [request EXCEPT ![r] =
                   IF ResponseOk(httpResponse[r].status)
                     THEN ServerCompleted(@, httpResponse[r])
                     ELSE ErrorCompleted(@, ApiCallFailed(httpResponse[r].status))]
  /\ pc' = [pc EXCEPT ![r] = "done"]
  /\ UNCHANGED <<envVars, endpointVars, textVars, deployVars, posted, serverVars, serviceVars, gateVars>>

\* No request has been sent to any endpoint yet.
Quiet ==
  /\ served = NoAnswer /\ exportRequest = NoExportRequest
  /\ structuredCall = StructuredIdle
  /\ \A s \in Runs : pc[s] = "idle"
\* A POST reaches /api/orchestrator from a caller other than the orchestrator
\* client (no probe was made); parsed is whether request.json() returned.
DirectPost(r) ==
  /\ Quiet
  /\ \E parsed \in BOOLEAN, userRequest \in UserRequests :
       LET code == IF parsed THEN POSTValidation(userRequest, GEMINI_API_KEY) ELSE 500
           hasModel == GeminiServiceModel(NEXT_PUBLIC_GEMINI_API_KEY, GEMINI_API_KEY)
           entry == GenerateResponseEntry(hasModel, sinceLastRequest[r])
       IN  /\ body' = [body EXCEPT ![r] = IF parsed THEN userRequest ELSE "unparsed"]
           /\ IF code # 0
                THEN /\ httpResponse' = [httpResponse EXCEPT ![r] =
                                           [NoResponse EXCEPT !.status = code]]
                     /\ pc' = [pc EXCEPT ![r] = "responding"]
                     /\ UNCHANGED <<stage, currentInput, model, timer, completion>>
                ELSE /\ model' = [model EXCEPT ![r] = hasModel]
                     /\ stage' = [stage EXCEPT ![r] = 1]
                     /\ currentInput' = [currentInput EXCEPT ![r] = userRequest]
                     /\ pc' = [pc EXCEPT ![r] = entry.pc]
                     /\ timer' = [timer EXCEPT ![r] = entry.timer]
                     /\ completion' = [completion EXCEPT ![r] = entry.completion]
                     /\ UNCHANGED httpResponse
  /\ UNCHANGED <<envVars, textVars, deployVars, clientVars, workflow, orchestrationLog,
                 finalAgent, completions, sinceLastRequest, sent, attempts, overloaded,
                 answers, gateVars, served, builderVars, structuredCall>>

\* The answer of a direct POST reaches its caller.
DirectReceive(r) ==
  /\ pc[r] = "responding" /\ ~posted[r]
  /\ pc' = [pc EXCEPT ![r] = "done"]
  /\ UNCHANGED <<envVars, endpointVars, textVars, deployVars, clientVars, serverVars,
                 serviceVars, gateVars>>

\* One request reaches GET /api/orchestrator/status, POST /api/test or
\* POST /api/chat and is answered.
StatusArrive ==
  /\ Quiet
  /\ served' = Answer("status", GETStatus(GEMINI_API_KEY), 0)
  /\ UNCHANGED <<envVars, structuredCall, body, builderVars, textVars, deployVars, pc, clientVars,
                 serverVars, serviceVars, gateVars>>
TestArrive ==
  /\ Quiet
  /\ \E parsed, testScenario \in BOOLEAN, agent \in {"absent", "malformed", "valid"} :
       served' = POSTTest(parsed, agent, testScenario, GEMINI_API_KEY, backend)
  /\ UNCHANGED <<envVars, structuredCall, body, builderVars, textVars, deployVars, pc, clientVars,
                 serverVars, serviceVars, gateVars>>
ChatArrive ==
  /\ Quiet
  /\ \E parsed, message \in BOOLEAN :
       served' = POSTChat(parsed, message, GEMINI_API_KEY, backend)
  /\ UNCHANGED <<envVars, structuredCall, body, builderVars, textVars, deployVars, pc, clientVars,
                 serverVars, serviceVars, gateVars>>

\* onLoadAgent / onAgentSelect: another agent becomes the current one.
LoadAgent ==
  /\ Quiet /\ loadedStatus = "draft" /\ currentAgent.metadata.updated = "created"
  /\ \E status \in AgentStatuses \ {"draft"} :
       /\ currentAgent' = Agent(status, "created")
       /\ loadedStatus' = status
  /\ UNCHANGED <<envVars, structuredCall, body, served, deployPc, exportRequest, exportResponse, textVars,
                 deployVars, pc, clientVars, serverVars, serviceVars, gateVars>>
\* handleDeployAgent up to its fetch of /api/export.
HandleDeployAgent ==
  /\ Quiet /\ deployPc = "idle"
  /\ deployPc' = "exporting"
  /\ exportRequest' = [from |-> "page", parsed |-> TRUE, agent |-> "valid",
                        config |-> DeployExportConfig]
  /\ UNCHANGED <<envVars, structuredCall, body, served, currentAgent, loadedStatus, exportResponse,
                 textVars, deployVars, pc, clientVars, serverVars, serviceVars, gateVars>>
\* A POST reaches /api/export from another caller, with any exportConfig.
DirectExport ==
  /\ Quiet
  /\ \E parsed \in BOOLEAN, agent \in {"absent", "malformed", "valid"},
        config \in ExportConfigs \cup {NoConfig} :
       exportRequest' = [from |-> "direct", parsed |-> parsed, agent |-> agent,
                         config |-> config]
  /\ UNCHANGED <<envVars, structuredCall, body, served, currentAgent, loadedStatus, deployPc,
                 exportResponse, textVars, deployVars, pc, clientVars, serverVars,
                 serviceVars, gateVars>>
\* POST /api/export handles the request: the checks, exportAgent with the
\* deployment it attempts on the vercel platform, and the answer.
ExportDeployment == <<"run1", "deployToVercel">>
ExportArrive ==
  /\ exportRequest # NoExportRequest /\ exportResponse = NoExportResponse
  /\ \E cmd \in IF VERCEL_TOKEN THEN CommandOutcomes ELSE {NoCommand} :
       LET req == exportRequest
           result == deployToVercel(VERCEL_TOKEN, cmd)
       IN  /\ exportResponse' = POSTExport(req.parsed, req.agent, req.config, result)
           /\ IF ExportDeploys(req.parsed, req.agent, req.config)
                THEN /\ cli' = [cli EXCEPT ![ExportDeployment] = cmd]
                     /\ deployed' = [deployed EXCEPT ![ExportDeployment] = result]
                     /\ tempDir' = [tempDir EXCEPT ![ExportDeployment] = result.tempDir]
                ELSE UNCHANGED <<cli, deployed, tempDir>>
  /\ UNCHANGED <<envVars, structuredCall, body, served, currentAgent, loadedStatus, deployPc,
                 exportRequest, textVars, VERCEL_TOKEN, exported, pc, clientVars,
                 serverVars, serviceVars, gateVars>>
\* handleDeployAgent after its fetch: fetched is whether fetch resolved.
HandleDeployAgentReturn ==
  /\ deployPc = "exporting" /\ exportResponse # NoExportResponse
  /\ \E fetched \in BOOLEAN :
       currentAgent' = AfterExport(currentAgent, fetched, exportResponse)
  /\ deployPc' = "finished"
  /\ UNCHANGED <<envVars, structuredCall, body, served, loadedStatus, exportRequest, exportResponse,
                 textVars, deployVars, pc, clientVars, serverVars, serviceVars, gateVars>>

\* The outer catch of generateStructuredResponse has caught err.
StructuredCaught(err) ==
  LET todo == structuredCatch(err)
  IN  IF todo = "retry"
        THEN /\ structuredCall' = [structuredCall EXCEPT !.pc = "cooldown"]
             /\ UNCHANGED structured
        ELSE /\ structuredCall' = [structuredCall EXCEPT !.pc = "settled",
                                                        !.rejected = (todo = "reject")]
             /\ structured' = IF todo = "resolve" THEN ErrorSentinel ELSE structured
\* generateStructuredResponse up to its first await: without a model it
\* throws inside its own try; otherwise it awaits rateLimitDelay.
StructuredEnter ==
  IF ~GeminiServiceModel(NEXT_PUBLIC_GEMINI_API_KEY, GEMINI_API_KEY)
    THEN StructuredCaught(NotInitialized)
    ELSE /\ structuredCall' = [structuredCall EXCEPT !.pc = "gate"]
         /\ UNCHANGED structured
StructuredCall ==
  /\ Quiet
  /\ StructuredEnter
  /\ UNCHANGED <<envVars, body, served, builderVars, response, specification, built,
                 deployVars, pc, clientVars, serverVars, serviceVars, gateVars>>
\* rateLimitDelay returns and generateContent is sent.
StructuredGateOpen ==
  /\ structuredCall.pc = "gate"
  /\ structuredCall' = [structuredCall EXCEPT !.pc = "inflight", !.passes = @ + 1,
                                               !.outbound = @ + 1]
  /\ UNCHANGED <<envVars, body, served, builderVars, textVars, deployVars, pc,
                 clientVars, serverVars, serviceVars, gateVars>>
\* generateContent returns or throws.
StructuredRespond ==
  /\ structuredCall.pc = "inflight"
  /\ IF BackendAnswer(backend).ok
       THEN /\ \E text \in StructuredAnswers : structured' = structuredResult(text)
            /\ structuredCall' = [structuredCall EXCEPT !.pc = "settled"]
       ELSE StructuredCaught(BackendAnswer(backend).error)
  /\ UNCHANGED <<envVars, body, served, builderVars, response, specification, built,
                 deployVars, pc, clientVars, serverVars, serviceVars, gateVars>>
\* The 60 s wait of the catch is over: generateStructuredResponse calls itself.
StructuredCooldownOver ==
  /\ structuredCall.pc = "cooldown" /\ structuredCall.retries < MaxAttempts
  /\ structuredCall' = [structuredCall EXCEPT !.pc = "gate", !.retries = @ + 1]
  /\ UNCHANGED <<envVars, body, served, builderVars, textVars, deployVars, pc,
                 clientVars, serverVars, serviceVars, gateVars>>

\* Time passes until the next pending wait runs out.
Advance ==
  LET waiting == {r \in Runs : pc[r] \in Timed /\ timer[r] > 0}
  IN  /\ waiting # {}
      /\ LET d == MinOf({timer[r] : r \in waiting})
         IN  /\ timer' = [r \in Runs |-> IF r \in waiting THEN timer[r] - d ELSE timer[r]]
             /\ sinceLastRequest' =
                  [r \in Runs |-> Saturate(sinceLastRequest[r] + d, RATE_LIMIT_DELAY)]
             /\ sinceOutbound' = Saturate(sinceOutbound + d, RATE_LIMIT_DELAY)
             /\ sinceFirst' =
                  [r \in Runs |-> IF callNo[r] > 0 /\ callNo[r] < MaxCalls
                                    THEN Saturate(sinceFirst[r] + d,
                                                  (MaxCalls - 1) * RATE_LIMIT_DELAY)
                                    ELSE sinceFirst[r]]
      /\ UNCHANGED <<envVars, endpointVars, textVars, deployVars, pc, clientVars, serverVars, model, completion, sent,
                     attempts, overloaded, answers, callNo, firstToCall, gap, processGap>>

\* The backend changes its behaviour.
BackendChange ==
  /\ backendChanges < MaxBackendChanges
  /\ \E mode \in BackendModes \ {backend} : backend' = mode
  /\ backendChanges' = backendChanges + 1
  /\ UNCHANGED <<GEMINI_API_KEY, endpointVars, textVars, deployVars, pc, clientVars, serverVars, serviceVars, gateVars>>

RunStep(r) ==
  \/ ProbeReturn(r)
  \/ PostArrive(r)
  \/ GateOpen(r)
  \/ Respond(r)
  \/ CooldownOver(r)
  \/ StageReturn(r)
  \/ DeployReturn(r)
  \/ ClientReceive(r)

\* generateStructuredResponse has the backend's response text and returns.
StructuredReturn ==
  /\ structured = NoResult
  /\ structured' = structuredResult(response)
  /\ UNCHANGED <<envVars, endpointVars, pc, clientVars, serverVars, serviceVars, gateVars, deployVars,
                 response, specification, built>>

\* createFinalAgent extracts the configuration's fields.
BuildFinalAgent ==
  /\ built = NotBuilt
  /\ \E words \in RequestWords : built' = extractedFields(words, specification)
  /\ UNCHANGED <<envVars, endpointVars, pc, clientVars, serverVars, serviceVars, gateVars, deployVars,
                 response, specification, structured>>

\* The text functions applied to every input text of the bounded sets.
NextText == StructuredReturn \/ BuildFinalAgent
SpecText == InitText /\ [][NextText]_vars

\* One submission, any backend behaviour.
Next ==
  \/ \E r \in Runs : SubmitAlone(r)
  \/ \E r \in Runs : RunStep(r)
  \/ \E r \in Runs : ExportAgent(r)
  \/ Advance
  \/ BackendChange
Spec == Init /\ [][Next]_vars

\* The same, with the scheduling the runtime gives: a settled promise or an
\* expired timer is eventually handled, and time passes.
FairSpec == Spec /\ WF_vars(Advance) /\ \A r \in Runs : WF_vars(RunStep(r))

\* One request sent to one endpoint directly, against a backend whose
\* behaviour stays as it is.
NextEndpoints ==
  \/ \E r \in Runs : DirectPost(r)
  \/ \E r \in Runs : GateOpen(r)
  \/ \E r \in Runs : Respond(r)
  \/ \E r \in Runs : CooldownOver(r)
  \/ \E r \in Runs : StageReturn(r)
  \/ \E r \in Runs : DeployReturn(r)
  \/ \E r \in Runs : DirectReceive(r)
  \/ Advance
  \/ StatusArrive
  \/ TestArrive
  \/ ChatArrive
  \/ LoadAgent
  \/ HandleDeployAgent
  \/ DirectExport
  \/ ExportArrive
  \/ HandleDeployAgentReturn
  \/ StructuredCall
  \/ StructuredGateOpen
  \/ StructuredRespond
  \/ StructuredCooldownOver
SpecEndpoints == Init /\ [][NextEndpoints]_vars

\* Concurrent submissions against a backend whose behaviour stays as it is, on
\* a server without a Vercel token; nothing is exported.
NextConcurrent ==
  \/ \E r \in Runs : Submit(r)
  \/ \E r \in Runs : RunStep(r)
  \/ Advance
InitConcurrent == Init /\ ~VERCEL_TOKEN
SpecConcurrent == InitConcurrent /\ [][NextConcurrent]_vars

\* ------------------------------------------------------------ claims
StageEntries(r) == 1..Len(workflow[r])
OutputsOf(log) == {log[i].output : i \in {j \in 1..Len(log) : log[j].kind = "stage"}}
\* The order of roles the claims name.
ExpectedRoles ==
  <<"planner", "analyzer", "creator", "tester", "validator", "optimizer",
    "documenter", "security", "performance", "architecture">>
AllFallbackTexts == {fallbackResponses[role] : role \in Roles}

\* C1 (as stated): every stage result's output text is non-empty, whatever the
\* completion client did, the empty text included.
C1_OutputNeverEmpty ==
  \A r \in Runs : \A k \in StageEntries(r) : workflow[r][k].output # ""

\* C1 (amended): every settled completion, resolved or rejected, yields a stage
\* result (executeAgent does not raise), and its output text is non-empty
\* whenever the client failed or returned non-empty text; an empty text returned
\* by the client is passed on as it is.
C1_ResultShape ==
  \A r \in Runs :
    /\ Len(workflow[r]) = Len(completions[r])
    /\ \A k \in StageEntries(r) :
         /\ workflow[r][k].role = Stages[k].role
         /\ workflow[r][k].status = "completed"
         /\ (~completions[r][k].ok \/ completions[r][k].text # "")
              => workflow[r][k].output # ""
         /\ (completions[r][k].ok /\ completions[r][k].text = "")
              => workflow[r][k].output = ""
C1_Witness ==
  \E r \in Runs : \E j, k \in StageEntries(r) :
    /\ ~completions[r][j].ok /\ workflow[r][j].output # ""
    /\ completions[r][k].ok /\ completions[r][k].text # ""

\* C2: stage 1 receives the user request, the input of every later stage is the
\* output text of the stage before it, and a completion call for stage k is in
\* flight only when the results of stages 1..k-1 are recorded, its prompt
\* embedding the previous result's output.
C2_InputThreading ==
  \A r \in Runs :
    /\ \A k \in StageEntries(r) :
         workflow[r][k].input =
           IF k = 1 THEN request[r].userRequest ELSE workflow[r][k - 1].output
    /\ pc[r] = "inflight" =>
         /\ sent[r].stage = Len(workflow[r]) + 1
         /\ sent[r].prompt.template = Stages[sent[r].stage].role
         /\ sent[r].prompt.input =
              IF sent[r].stage = 1 THEN request[r].userRequest
              ELSE workflow[r][sent[r].stage - 1].output
C2_Witness ==
  \E r \in Runs :
    /\ pc[r] = "inflight"
    /\ sent[r].stage = NumStages
    /\ sent[r].prompt.input = fallbackResponses["performance"]
    /\ workflow[r][1].output = GeneratedText

\* C3: when executeAgentOrchestration has returned, the workflow log is the
\* ten roles in their fixed order, whichever stages fell back.
C3_TenStagesInOrder ==
  \A r \in Runs :
    ServerReturned(r) =>
      /\ Len(httpResponse[r].workflow) = 10
      /\ \A k \in 1..10 : httpResponse[r].workflow[k].role = ExpectedRoles[k]
      /\ httpResponse[r].workflow = workflow[r]
C3_Witness ==
  \E r \in Runs :
    /\ ServerReturned(r)
    /\ \E j, k \in StageEntries(r) : completions[r][j].ok /\ ~completions[r][k].ok

\* C4 (as stated): one generateResponse invocation makes at most two outbound
\* requests, the second after a RateLimited answer to the first.
C4_AtMostTwoRequests ==
  \A r \in Runs : attempts[r] <= 2

\* C5 (as stated): every run that starts eventually finishes, whatever the
\* backend does.
C5_EveryRunFinishes ==
  \A r \in Runs : (pc[r] # "idle") ~> (pc[r] = "done")

C7_ProcessWideGate ==
  processGap >= RATE_LIMIT_DELAY

\* C8: once an invocation of generateResponse has met an Overloaded answer it
\* has failed: it is rejected with the overloaded message, waits no cooldown and
\* makes no further request.
C8_OverloadedFailsAtOnce ==
  \A r \in Runs :
    overloaded[r] =>
      /\ pc[r] = "settled"
      /\ timer[r] = 0
      /\ ~completion[r].ok
      /\ completion[r].error = <<"Model overloaded - using fallback response">>
C8_Witness ==
  \E r \in Runs :
    overloaded[r] /\ attempts[r] = 2 /\ answers[r] = {"ratelimited", "overloaded"}

\* C9: without the credential no POST is sent and no completion call is made,
\* and a finished run is completed in demo mode with the two demo agents.
C9_DemoShortCircuit ==
  ~GEMINI_API_KEY =>
    \A r \in Runs :
      /\ ~posted[r]
      /\ callNo[r] = 0
      /\ workflow[r] = <<>>
      /\ pc[r] = "done" =>
           /\ request[r].status = "completed"
           /\ request[r].stepDescription = "API not configured - using demo mode"
           /\ request[r].generatedAgents = <<"demo-agent-1", "demo-agent-2">>
           /\ Len(request[r].conversationHistory) = 2
           /\ request[r].conversationHistory[2].kind = "demo"
C9_Witness ==
  \E r \in Runs :
    ~GEMINI_API_KEY /\ pc[r] = "done" /\ request[r].userRequest # ""

\* C10: when every completion call of a run was answered Overloaded, every
\* stage records its own fallback text, the server answers 200 once the stages
\* are through, and the finished run is completed with a transcript holding all
\* ten fallback texts.
C10_AllOverloaded ==
  \A r \in Runs :
    answers[r] = {"overloaded"} =>
      /\ \A k \in StageEntries(r) :
           workflow[r][k].output = fallbackResponses[ExpectedRoles[k]]
      /\ pc[r] \in {"responding", "done"} =>
           /\ ServerReturned(r)
           /\ AllFallbackTexts \subseteq OutputsOf(httpResponse[r].response)
      /\ pc[r] = "done" =>
           /\ request[r].status = "completed"
           /\ request[r].conversationHistory[2].kind = "server"
           /\ AllFallbackTexts \subseteq OutputsOf(request[r].conversationHistory[2].log)
C10_Witness ==
  \E r \in Runs :
    /\ answers[r] = {"overloaded"}
    /\ pc[r] = "done"
    /\ Cardinality(OutputsOf(request[r].conversationHistory[2].log)) = 10

\* The runs whose POST threw or was answered with a non-OK status, and that
\* have returned: the ones that went through processUserRequest's catch block.
Caught(r) ==
  pc[r] = "done" /\ posted[r] /\ ~ResponseOk(httpResponse[r].status)

\* C11 as stated: a run whose server call threw or was answered non-OK ends with
\* status failed, one fallback placeholder agent and one error message.
C11_CatchAllFailed ==
  \A r \in Runs :
    Caught(r) =>
      /\ request[r].status = "failed"
      /\ request[r].generatedAgents = <<"fallback-agent-1">>
      /\ Len(request[r].conversationHistory) = 2
      /\ request[r].conversationHistory[2].kind = "error"
\* C11 amended: such a run ends with status completed ("Completed with fallback
\* response"), exactly one fallback placeholder agent and exactly one error
\* message after the user's request; no run ever has status failed.
C11_CatchAllCompleted ==
  \A r \in Runs :
    /\ request[r].status # "failed"
    /\ Caught(r) =>
         /\ request[r].status = "completed"
         /\ request[r].stepDescription = "Completed with fallback response"
         /\ request[r].generatedAgents = <<"fallback-agent-1">>
         /\ Len(request[r].conversationHistory) = 2
         /\ request[r].conversationHistory[2].kind = "error"
         /\ request[r].conversationHistory[2].userRequest = request[r].userRequest
C11_Witness ==
  \E r \in Runs :
    /\ Caught(r) /\ httpResponse[r].status = 400
    /\ request[r].generatedAgents = <<"fallback-agent-1">>

\* C12: on every path (probe unavailable, server success, server error answer,
\* network exception) a returned run has status completed and a transcript of
\* the user's request followed by exactly one assistant message; before it
\* returns the run is processing with only the user's message.
C12_AlwaysCompletedOneMessage ==
  \A r \in Runs :
    /\ pc[r] = "idle" => request[r] = NoRequest
    /\ pc[r] \notin {"idle", "done"} =>
         /\ request[r].status = "processing"
         /\ Len(request[r].conversationHistory) = 1
    /\ pc[r] = "done" =>
         /\ request[r].status = "completed"
         /\ Len(request[r].conversationHistory) = 2
         /\ request[r].conversationHistory[1] =
              Message("user", "request", request[r].userRequest, <<>>)
         /\ request[r].conversationHistory[2].role = "assistant"
         /\ request[r].conversationHistory[2].kind \in
              {"demo", "server", "default", "error"}
C12_Witness ==
  \E r \in Runs :
    /\ pc[r] = "done" /\ ServerReturned(r)
    /\ request[r].conversationHistory[2].kind = "server"
    /\ request[r].conversationHistory[2].log = orchestrationLog[r]

\* The deployment calls that have returned or thrown.
Called(d) == deployed[d] # NotCalled

\* C13: when the deployment call fails, the final configuration's deployment
\* status is failed and the transcript ends with the deployment error block,
\* yet the POST answers 200 with the ten-entry workflow and the finished run is
\* completed with the server's transcript.
C13_DeploymentFailureIsNotRunFailure ==
  \A r \in Runs :
    LET d == <<r, "deployAgent">>
        resp == httpResponse[r]
    IN  Called(d) /\ ~deployed[d].ok =>
          /\ ServerReturned(r)
          /\ finalAgent[r].status = "failed"
          /\ resp.finalAgent.status = "failed"
          /\ resp.finalAgent.deploymentUrl = "null"
          /\ resp.response[Len(resp.response)].kind = "deployment-failed"
          /\ Len(resp.workflow) = NumStages
          /\ \A k \in 1..NumStages : resp.workflow[k].status = "completed"
          /\ pc[r] = "done" =>
               /\ request[r].status = "completed"
               /\ request[r].conversationHistory[2].log = resp.response
C13_Witness ==
  \E r \in Runs :
    /\ Called(<<r, "deployAgent">>) /\ ~deployed[<<r, "deployAgent">>].ok
    /\ cli[<<r, "deployAgent">>].exit = "failed"
    /\ pc[r] = "done"

\* C14: once a deployment call (deployAgent or deployToVercel) has returned or
\* thrown, the temporary project directory it created no longer exists.
C14_TempDirRemoved ==
  \A d \in Deployments : Called(d) => tempDir[d] # "exists"

\* C15 as stated: a deployment command that timed out or failed never gives a
\* successful deployment result.
C15_NoSuccessUnlessCommandCompleted ==
  \A d \in Deployments :
    cli[d].exit \in {"failed", "timeout"} => ~deployed[d].ok
\* C15 amended: a deployment command that timed out or failed gives a
\* deployment error unless its captured output holds a vercel.app URL, in
\* which case that URL is returned as a deployment with a generated id.
C15_FailedCommandResult ==
  \A d \in Deployments :
    cli[d].exit \in {"failed", "timeout"} =>
      /\ deployed[d].ok <=> cli[d].output # "none"
      /\ deployed[d].ok => deployed[d].deploymentId = "dpl"
      /\ ~deployed[d].ok => deployed[d].error = "Vercel deployment failed"
C15_Witness ==
  \E r \in Runs :
    /\ cli[<<r, "deployAgent">>].exit = "timeout" /\ deployed[<<r, "deployAgent">>].ok
    /\ cli[<<r, "deployToVercel">>].exit = "timeout"
    /\ ~deployed[<<r, "deployToVercel">>].ok

\* C16: the structured result is the parse of the braces-or-brackets substring
\* when there is one and it parses; otherwise the parse of the whole trimmed
\* response when that parses; otherwise the sentinel {error, rawResponse,
\* fallback: true} carrying the trimmed response.  A result is always returned.
C16_StructuredParseOrder ==
  structured # NoResult =>
    LET text == trim(response)
        match == jsonMatch(text)
        first == match # NoMatch /\ JSONparses(match)
    IN  /\ first => structured = Parsed(match)
        /\ ~first /\ JSONparses(text) => structured = Parsed(text)
        /\ ~first /\ ~JSONparses(text) =>
             /\ structured.fallback
             /\ structured.rawResponse = text
             /\ structured.error = "Failed to parse AI response as JSON"
        /\ structured.fallback <=> structured.value = NoMatch
\* The quoted text "[}]": its bracket substring does not parse, the whole does.
C16_Witness ==
  /\ response = <<"\"", "[", "}", "]", "\"">>
  /\ structured = Parsed(<<"\"", "[", "}", "]", "\"">>)

\* The sample texts the claims name.
CapabilitiesSample ==
  <<"Core Capabilities:", "\n", "-", " ", "A", "\n", "-", " ", "B", "\n">>
DesignSample ==
  <<"Design & Branding:", "\n", "-", " ", "Primary Color: ", "#3b82f6", "\n",
    "-", " ", "Secondary Color: ", "#10b981", "\n">>
Lacks(text, label) == \A i \in 1..Len(text) : text[i] # label

\* C17: extractCapabilities gives [A, B] for the text "Core Capabilities:"
\* followed by the bullet lines "- A" and "- B", and the fixed default list for
\* a text without that heading.
C17_CapabilitiesExtracted ==
  built # NotBuilt =>
    /\ specification = CapabilitiesSample => built.skills = << <<"A">>, <<"B">> >>
    /\ Lacks(specification, "Core Capabilities:") => built.skills = DefaultCapabilities

\* C18: a "Design & Branding:" section with the lines "Primary Color: #3b82f6"
\* and "Secondary Color: #10b981" gives these two colours in the final
\* configuration's design; without the patterns the defaults are used.
C18_DesignColoursExtracted ==
  built # NotBuilt =>
    /\ specification = DesignSample =>
         /\ built.design.primaryColor = "#3b82f6"
         /\ built.design.secondaryColor = "#10b981"
    /\ Lacks(specification, "Primary Color: ") =>
         built.design.primaryColor = DefaultPrimary
    /\ Lacks(specification, "Secondary Color: ") =>
         built.design.secondaryColor = DefaultSecondary

\* C19: whatever the creator's output and the request, the configuration is
\* built, and a field whose section is missing or yields no value has its
\* default: the description and the capability list are never empty, and the
\* colours are extracted ones or the defaults.
C19_DefaultsWhenNothingExtracted ==
  built # NotBuilt =>
    /\ built.description # <<>>
    /\ built.skills # <<>>
    /\ built.design.primaryColor \in HexColors \cup {DefaultPrimary}
    /\ built.design.secondaryColor \in HexColors \cup {DefaultSecondary}
    /\ Lacks(specification, "Personality & Tone:") =>
         built.description = DefaultDescription
    /\ Lacks(specification, "Core Capabilities:") => built.skills = DefaultCapabilities

ShownErrors(r) ==
  LET msg == request[r].conversationHistory[2]
  IN  (IF msg.error # <<>> THEN {msg.error} ELSE {})
        \cup {<<msg.log[i].output>> :
                 i \in {j \in 1..Len(msg.log) : msg.log[j].kind = "deployment-failed"}}

\* C21: the text returned to the user never holds the message of an internal
\* failure (a stage's completion call, the deployment call, the catch-all), so
\* that failures differing only in their message show the same text.
C21_NoRawErrorShown ==
  \A r \in Runs : pc[r] = "done" => ShownErrors(r) = {}

\* C22 as stated: a returned run whose probe reported available has a workflow
\* log of ten entries; one whose probe reported unavailable has none, and the
\* two demo placeholder agents.
C22_WorkflowLength ==
  \A r \in Runs :
    pc[r] = "done" =>
      IF posted[r]
        THEN Len(httpResponse[r].workflow) = NumStages
        ELSE Len(workflow[r]) = 0 /\ Len(request[r].generatedAgents) = 2
\* C22 amended: the workflow log has ten entries whenever the probe reported
\* available and the server answered the POST with 200; when the POST threw or
\* was answered with an error there is no workflow log and one fallback
\* placeholder agent; when the probe reported unavailable there is no workflow
\* log and there are the two demo placeholder agents.
C22_WorkflowLengthWhenAnswered ==
  \A r \in Runs :
    /\ Len(workflow[r]) <= NumStages
    /\ pc[r] = "done" =>
         /\ posted[r] /\ ServerReturned(r) =>
              /\ Len(httpResponse[r].workflow) = NumStages
              /\ httpResponse[r].workflow = workflow[r]
         /\ posted[r] /\ ~ServerReturned(r) =>
              /\ Len(workflow[r]) = 0 /\ httpResponse[r].workflow = <<>>
              /\ request[r].generatedAgents = <<"fallback-agent-1">>
         /\ ~posted[r] =>
              /\ Len(workflow[r]) = 0
              /\ request[r].generatedAgents = <<"demo-agent-1", "demo-agent-2">>
C22_Witness ==
  \E r \in Runs :
    /\ pc[r] = "done" /\ posted[r] /\ ~ServerReturned(r)
    /\ httpResponse[r].status = 400

\* C23: once a run's status is completed or failed, no field of the run
\* (generated agents, conversation history, step description, status) is
\* changed by any later step.
C23_CompletedIsFinal ==
  [][\A r \in Runs :
       request[r].status \in {"completed", "failed"} => request'[r] = request[r]]_vars
\* A completed run after which the system has taken a further step.
C23_Witness ==
  \E r \in Runs :
    /\ request[r].status = "completed"
    /\ exported[r] # NoExport
    /\ Len(request[r].conversationHistory) = 2

\* The file paths of the generated project.
FilePaths ==
  {"app/page.tsx", "app/api/chat/route.ts", "app/layout.tsx", "app/globals.css",
   "package.json", "next.config.js", "tsconfig.json", "README.md"}

\* C24: for every request and every creator output the generated code holds
\* exactly the eight fixed file paths, each once.
C24_FixedFilePaths ==
  built # NotBuilt =>
    /\ {built.generatedCode[i].path : i \in 1..Len(built.generatedCode)} = FilePaths
    /\ Len(built.generatedCode) = Cardinality(FilePaths)
\* Two configurations would differ in content: the empty request, and a
\* creator output with a matched, empty description.
C24_Witness ==
  /\ built # NotBuilt
  /\ built.name = <<"", "Agent">>
  /\ built.description = <<>>
  /\ built.generatedCode[8] = File("README.md", <<"", "Agent">>)
\* C25: with the completion credential absent the availability probe answers
\* 503, and POST /api/orchestrator, POST /api/test and POST /api/chat each
\* answer with an error status without making a completion call.
C25_NoCredentialNoCall ==
  ~GEMINI_API_KEY =>
    /\ served # NoAnswer =>
         /\ served.status >= 400 /\ served.calls = 0
         /\ served.endpoint = "status" => served.status = 503
    /\ \A r \in Runs :
         body[r] # "none" =>
           /\ pc[r] \in {"responding", "done"}
           /\ httpResponse[r].status >= 400
           /\ sent[r] = NoneSent /\ callNo[r] = 0 /\ completions[r] = <<>>
C25_Witness ==
  /\ ~GEMINI_API_KEY
  /\ served = Answer("test", 500, 0)

\* C30: POST /api/orchestrator answers 400 to a body without a user request
\* and 503 to a user request made while the credential is missing, and in both
\* cases no stage is executed, no completion call is made and no deployment is
\* attempted.
C30_ValidatesBeforeWork ==
  \A r \in Runs :
    (body[r] \in UserRequests /\ (body[r] = "" \/ ~GEMINI_API_KEY)) =>
      /\ pc[r] \in {"responding", "done"}
      /\ httpResponse[r].status = IF body[r] = "" THEN 400 ELSE 503
      /\ stage[r] = 0 /\ workflow[r] = <<>> /\ finalAgent[r] = NoAgent
      /\ sent[r] = NoneSent /\ callNo[r] = 0 /\ completions[r] = <<>>
      /\ ~Called(<<r, "deployAgent">>)
C30_Witness ==
  \E r \in Runs :
    /\ ~GEMINI_API_KEY /\ body[r] = "build a support bot"
    /\ pc[r] = "done" /\ httpResponse[r].status = 503

\* C26: in the final configuration a server-side run returns, the deployment
\* status is deployed exactly when deploymentUrl and deploymentId are both
\* set and failed with both null otherwise, never ready; the transcript holds
\* exactly one deployment block, its last, and the block agrees with the status.
DeploymentKinds == {"deployment-completed", "deployment-failed"}
C26_DeploymentStatusAgrees ==
  \A r \in Runs :
    ServerReturned(r) =>
      LET agent == httpResponse[r].finalAgent
          log == httpResponse[r].response
          blocks == {k \in 1..Len(log) : log[k].kind \in DeploymentKinds}
      IN  /\ agent.status \in {"deployed", "failed"}
          /\ agent.status = "deployed" <=>
                (agent.deploymentUrl # "null" /\ agent.deploymentId # "null")
          /\ agent.status = "failed" =>
                (agent.deploymentUrl = "null" /\ agent.deploymentId = "null")
          /\ blocks = {Len(log)}
          /\ log[Len(log)].kind = IF agent.status = "deployed"
                                    THEN "deployment-completed" ELSE "deployment-failed"
C26_Witness ==
  \E r \in Runs :
    /\ ServerReturned(r)
    /\ httpResponse[r].finalAgent.status = "deployed"
    /\ httpResponse[r].finalAgent.deploymentId = "dpl"
    /\ cli[<<r, "deployAgent">>].exit = "timeout"

\* C27: after handleDeployAgent has finished, the current agent's
\* metadata.status has become deployed only if the export reported a successful
\* deployment (deploymentStatus success with a deployment URL), and when the
\* deployment attempt failed the status is the one the agent had.
ReportedSuccess(resp) ==
  /\ resp.exportedAgent.deploymentStatus = "success"
  /\ resp.exportedAgent.deploymentUrl # "null"
ExpectedFiles(config) ==
  {"package.json", "README.md"}
  \cup (IF config.format = "nextjs"
         THEN {"app/page.tsx", "app/api/chat/route.ts", "app/globals.css",
               "app/layout.tsx", "public/favicon.ico"}
         ELSE IF config.format = "react" THEN {"src/App.tsx"} ELSE {})
  \cup (IF config.includeApi THEN {".env.example"} ELSE {})
C29_ExportSurvivesDeploymentFailure ==
  LET req == exportRequest
      resp == exportResponse
      ea == resp.exportedAgent
  IN  (resp # NoExportResponse /\ req.parsed /\ req.agent = "valid" /\ req.config # NoConfig) =>
        /\ Called(ExportDeployment) <=> req.config.platform = "vercel"
        /\ resp.status = 200 /\ resp.success
        /\ {ea.files[k] : k \in 1..Len(ea.files)} = ExpectedFiles(req.config)
        /\ Len(ea.files) = Cardinality(ExpectedFiles(req.config))
        /\ IF ~Called(ExportDeployment)
             THEN ea.deploymentStatus = "none" /\ ea.deploymentUrl = "null"
             ELSE IF deployed[ExportDeployment].ok
               THEN ea.deploymentStatus = "success" /\ ea.deploymentUrl # "null"
               ELSE ea.deploymentStatus = "failed" /\ ea.deploymentUrl = "null"
C29_Witness ==
  /\ exportRequest.config = [format |-> "react", platform |-> "vercel", includeApi |-> FALSE]
  /\ Called(ExportDeployment) /\ ~deployed[ExportDeployment].ok
  /\ exportResponse.exportedAgent.deploymentStatus = "failed"
  /\ Len(exportResponse.exportedAgent.files) = 3

\* C28: a generateStructuredResponse call never rejects because of a missing
\* credential, an overloaded backend or another error that is not a rate
\* limit: it resolves to a sentinel with fallback = true; with a missing
\* credential it does so without getting past the rate gate and without an
\* outbound call.
C28_StructuredNeverRejects ==
  LET hasModel == GeminiServiceModel(NEXT_PUBLIC_GEMINI_API_KEY, GEMINI_API_KEY)
  IN  /\ ~hasModel =>
           /\ structuredCall.pc \in {"idle", "settled"}
           /\ structuredCall.passes = 0 /\ structuredCall.outbound = 0
      /\ structuredCall.pc = "settled" =>
           /\ ~structuredCall.rejected
           /\ (~hasModel \/ backend \in {"overloaded", "error"}) =>
                (structured.fallback /\ structured = ErrorSentinel)
C28_Witness ==
  /\ structuredCall.pc = "settled" /\ structuredCall.outbound = 1
  /\ backend = "overloaded"
  /\ structured = ErrorSentinel

====
